---- MODULE Spec2Model ----
(***************************************************************************)
(* Script manager (src/Sc-db.py): catalog of scripts (scripts.json),       *)
(* compressed backups under backups/<name>/, restore to reproduced/<name>/ *)
(* and the PendingBackupWorker thread that retries deferred backups.       *)
(*                                                                         *)
(* Two threads of control: the foreground menu loop ("fg") and the daemon  *)
(* worker ("wk").  Every file-system call is one step, so the threads      *)
(* interleave between any two calls.  Paths are tuples of components,      *)
(* file contents are sequences of small integers.  A record's description  *)
(* is carried through the code unchanged and is left out of the state.     *)
(***************************************************************************)
EXTENDS Integers, Sequences, FiniteSets, TLC

\* ---------------------------------------------------------------- bounds
MaxInputs == 2   \* inputs from outside: menu operations, process and file changes, I/O failures, stop()
MaxSweeps == 3   \* sweeps the worker starts (convergence scenario)
MaxRecs == 2     \* records flagged pending at the start (convergence scenario)
MaxLen == 2      \* longest source file content (round-trip scenario)
MaxRestores == 2 \* restores in a row (restore scenario)

\* ---------------------------------------------------------------- data
Names == {"a", "b"}
Paths == {<<"d1", "x.py">>, <<"d1", "y.py">>}
RunningAtStart == <<"d1", "x.py">>
Byte == {0, 1}
Contents == {<<0>>, <<1>>}
Procs == {"fg", "wk"}

\* A file of the source tree: present with its bytes, or missing.
File(data) == [exists |-> TRUE, data |-> data]
Missing == [exists |-> FALSE, data |-> <<>>]

\* An empty dict / an empty directory listing.
EmptyMap == [k \in {} |-> 0]
Put(f, k, v) == [x \in (DOMAIN f) \cup {k} |-> IF x = k THEN v ELSE f[x]]

\* backups/<name>/metadata.json: absent, unreadable JSON (a write that failed
\* half way), or the manifest.
NoMeta == [state |-> "absent", original_path |-> <<>>, files |-> EmptyMap]
BadMeta == [state |-> "corrupt", original_path |-> <<>>, files |-> EmptyMap]

\* backups/<name>/ and reproduced/<name>/
NoDir == [exists |-> FALSE, blobs |-> EmptyMap, meta |-> NoMeta]
EmptyDir == [exists |-> TRUE, blobs |-> EmptyMap, meta |-> NoMeta]
\* (readonly: the names under reproduced/<name>/ that cannot be opened for
\* writing, a directory of that name or a file without write permission)
NoOut == [exists |-> FALSE, files |-> EmptyMap, readonly |-> {}]

\* scripts.json: absent, being rewritten (opened "w", not yet dumped), or the list.
CatFile(scripts) == [state |-> "ok", scripts |-> scripts]
CatAbsent == [state |-> "absent", scripts |-> <<>>]
CatTorn == [state |-> "torn", scripts |-> <<>>]

Script(name, path, pending) == [name |-> name, path |-> path, pending_backup |-> pending]
NoScript == Script("", <<>>, FALSE)

RECURSIVE SeqsUpTo(_, _)
SeqsUpTo(S, n) ==
    IF n = 0 THEN {<<>>}
    ELSE LET shorter == SeqsUpTo(S, n - 1)
         IN  shorter \cup {Append(s, x) : s \in shorter, x \in S}

\* ---------------------------------------------------------------- ContentStore
\* os.path.basename
basename(path) == path[Len(path)]

\* base + ".gz" and its inverse f[:-3]
gz_name(base) == <<base, "gz">>
strip_gz(f) == f[1]
endswith_gz(f) == Len(f) = 2 /\ f[2] = "gz"

RECURSIVE SumBytes(_)
SumBytes(b) == IF b = <<>> THEN 0 ELSE b[Len(b)] + SumBytes(SubSeq(b, 1, Len(b) - 1))

\* The zlib trailer: Adler-32's low word (1 + sum of the bytes, mod 65521), kept
\* apart from payload bytes by an offset.
adler(b) == 256 + ((1 + SumBytes(b)) % 65521)

\* hashlib.sha256: a digest without collisions on the contents of the model
\* (the bytes read as digits 1..2 of a base-3 numeral after a leading 1).
RECURSIVE sha256_bytes(_)
sha256_bytes(b) ==
    IF b = <<>> THEN 1
    ELSE 3 * sha256_bytes(SubSeq(b, 1, Len(b) - 1)) + b[Len(b)] + 1

\* zlib.compress: header byte 0x78, the payload, the checksum trailer.
compress_bytes(b) == <<120>> \o b \o <<adler(b)>>

\* zlib.decompress: raises on a stream that is truncated, has a wrong header
\* or a wrong checksum.
decompress_ok(c) ==
    /\ Len(c) >= 2
    /\ c[1] = 120
    /\ c[Len(c)] = adler(SubSeq(c, 2, Len(c) - 1))

\* Faulty variant: the trailer is taken for payload.
decompress_keeps_trailer(c) == SubSeq(c, 2, Len(c))

decompress_bytes(c) == SubSeq(c, 2, Len(c) - 1)

\* ---------------------------------------------------------------- state
VARIABLES
    catalog,      \* scripts.json
    files,        \* the source tree: path -> File(bytes) or Missing
    backups,      \* backups/: name -> directory
    reproduced,   \* reproduced/: name -> directory
    procs,        \* the process table: path -> the sweep from which no live process names it
    sweeps,       \* sweeps the worker has started
    events,       \* events of the environment so far
    stop_event,   \* PendingBackupWorker._stop_event
    fg,           \* locals of the foreground menu loop
    wk,           \* locals of PendingBackupWorker.run
    call          \* per thread, the frame of its backup_script_to_folder call

vars == <<catalog, files, backups, reproduced, procs, sweeps, events, stop_event, fg, wk, call>>

Forever == MaxSweeps + 1

\* One more event of the environment.
Inputs == fg.n + events
Event == Inputs < MaxInputs /\ events' = events + 1

NoCall == [pc |-> "none", script |-> NoScript, raw |-> <<>>, ok |-> FALSE]

\* ---------------------------------------------------------------- catalog file
\* load_scripts: a missing or unreadable scripts.json reads as [].
load_scripts(cat) == IF cat.state = "ok" THEN cat.scripts ELSE <<>>

\* save_scripts is open(DATA_FILE, "w"), which empties the file, then json.dump.
save_open(cat) == CatTorn
save_dump(scripts) == CatFile(scripts)

\* Faulty variant: the flag is left set.
pop_pending_keeps(s) == s

\* s.pop("pending_backup", None)
pop_pending(s) == [s EXCEPT !.pending_backup = FALSE]
set_pending(s) == [s EXCEPT !.pending_backup = TRUE]

\* ---------------------------------------------------------------- RunningFileDetector
\* is_running: some live process has the path, or the path's base name, in its
\* command line.  (Without psutil the process table reads as empty.)
Live(q) == sweeps < procs[q]
is_running(path) ==
    \E q \in Paths : Live(q) /\ (q = path \/ basename(q) = basename(path))

\* ---------------------------------------------------------------- BackupArchive.create
\* os.makedirs(folder, exist_ok=True)
makedirs(dir) == IF dir.exists THEN dir ELSE EmptyDir

file_entry(base, raw) ==
    [backup_file |-> gz_name(base), sha256 |-> sha256_bytes(raw), orig_size |-> Len(raw)]

\* Faulty variant: the missing-source manifest lists the file.
no_source_meta_lists_file(script) ==
    [state |-> "ok", original_path |-> script.path,
     files |-> Put(EmptyMap, basename(script.path), file_entry(basename(script.path), <<>>))]

\* The manifest of the missing-source path: "files": {}
no_source_meta(script) ==
    [state |-> "ok", original_path |-> script.path, files |-> EmptyMap]

\* The manifest of a backup: one entry, keyed by the source's base name.
backup_meta(script, raw) ==
    [state |-> "ok", original_path |-> script.path,
     files |-> Put(EmptyMap, basename(script.path), file_entry(basename(script.path), raw))]

\* Faulty variant: the blob is not written.
write_blob_skipped(dir, base, raw) == dir

\* open(out_file, "wb").write(compressed)
write_blob(dir, base, raw) ==
    [dir EXCEPT !.blobs = Put(@, gz_name(base), compress_bytes(raw))]

\* Faulty variant: the entries of the manifest that is there are kept.
write_meta_merges(dir, meta) ==
    [dir EXCEPT !.meta =
        IF dir.meta.state = "ok" /\ meta.state = "ok"
          THEN [meta EXCEPT !.files =
                   [k \in DOMAIN dir.meta.files \cup DOMAIN meta.files |->
                       IF k \in DOMAIN meta.files THEN meta.files[k] ELSE dir.meta.files[k]]]
          ELSE meta]

\* json.dump(meta, open(meta_path, "w"))
write_meta(dir, meta) == [dir EXCEPT !.meta = meta]

\* A thread runs only while the process does: the worker is a daemon thread.
Running == fg.pc \notin {"exited", "crashed"}
Alive(self) == Running /\ (self = "wk" => wk.pc \notin {"done", "crashed"})

\* The call returns ok, or raises; its locals are gone.
Return(self, ok) == [call EXCEPT ![self].pc = "ret", ![self].ok = ok, ![self].raw = <<>>]
Raise(self) == [call EXCEPT ![self].pc = "raised", ![self].ok = FALSE, ![self].raw = <<>>]

\* lines 158-164: the archive directory is created before the try block.
Bk_Mkdir(self) ==
    /\ Alive(self) /\ call[self].pc = "mkdir"
    /\ backups' = [backups EXCEPT ![call[self].script.name] = makedirs(@)]
    /\ call' = [call EXCEPT ![self].pc = "src"]
    /\ UNCHANGED <<catalog, files, reproduced, procs, sweeps, stop_event, fg, wk, events>>

\* os.makedirs raises OSError (permission denied, disk full): nothing catches it.
Bk_MkdirFail(self) ==
    /\ Event
    /\ Alive(self) /\ call[self].pc = "mkdir"
    /\ call' = Raise(self)
    /\ UNCHANGED <<catalog, files, backups, reproduced, procs, sweeps, stop_event, fg, wk>>

\* lines 166-178: source missing, the manifest is written with no files.
Bk_NoSource(self) ==
    /\ Alive(self) /\ call[self].pc = "src"
    /\ ~files[call[self].script.path].exists
    /\ backups' = [backups EXCEPT ![call[self].script.name] =
                       write_meta(@, no_source_meta(call[self].script))]
    /\ call' = Return(self, FALSE)
    /\ UNCHANGED <<catalog, files, reproduced, procs, sweeps, stop_event, fg, wk, events>>

\* lines 175-176 raise: this write is outside the try block.  The manifest is
\* left as it was or half written.
Bk_NoSourceFail(self) ==
    /\ Event
    /\ Alive(self) /\ call[self].pc = "src"
    /\ ~files[call[self].script.path].exists
    /\ \E m \in {backups[call[self].script.name].meta, BadMeta} :
          backups' = [backups EXCEPT ![call[self].script.name] = write_meta(@, m)]
    /\ call' = Raise(self)
    /\ UNCHANGED <<catalog, files, reproduced, procs, sweeps, stop_event, fg, wk>>

\* lines 181-183: read the source.
Bk_Read(self) ==
    /\ Alive(self) /\ call[self].pc = "src"
    /\ files[call[self].script.path].exists
    /\ call' = [call EXCEPT ![self].pc = "blob",
                            ![self].raw = files[call[self].script.path].data]
    /\ UNCHANGED <<catalog, files, backups, reproduced, procs, sweeps, stop_event, fg, wk, events>>

\* the read raises inside the try block: caught at line 208.
Bk_ReadFail(self) ==
    /\ Event
    /\ Alive(self) /\ call[self].pc = "src"
    /\ files[call[self].script.path].exists
    /\ call' = Return(self, FALSE)
    /\ UNCHANGED <<catalog, files, backups, reproduced, procs, sweeps, stop_event, fg, wk>>

\* lines 184-187: write the blob.
Bk_Blob(self) ==
    /\ Alive(self) /\ call[self].pc = "blob"
    /\ backups' = [backups EXCEPT ![call[self].script.name] =
                       write_blob(@, basename(call[self].script.path), call[self].raw)]
    /\ call' = [call EXCEPT ![self].pc = "meta"]
    /\ UNCHANGED <<catalog, files, reproduced, procs, sweeps, stop_event, fg, wk, events>>

\* the blob write raises: the blob is left as it was (open failed) or empty
\* (opened "wb", write failed); caught at line 208.
Bk_BlobFail(self) ==
    /\ Event
    /\ Alive(self) /\ call[self].pc = "blob"
    /\ \E emptied \in BOOLEAN :
          backups' = [backups EXCEPT ![call[self].script.name].blobs =
                         IF emptied THEN Put(@, gz_name(basename(call[self].script.path)), <<>>)
                         ELSE @]
    /\ call' = Return(self, FALSE)
    /\ UNCHANGED <<catalog, files, reproduced, procs, sweeps, stop_event, fg, wk>>

\* lines 189-207: write the manifest, return True.
Bk_Meta(self) ==
    /\ Alive(self) /\ call[self].pc = "meta"
    /\ backups' = [backups EXCEPT ![call[self].script.name] =
                       write_meta(@, backup_meta(call[self].script, call[self].raw))]
    /\ call' = Return(self, TRUE)
    /\ UNCHANGED <<catalog, files, reproduced, procs, sweeps, stop_event, fg, wk, events>>

\* the manifest write raises: left as it was or half written; caught at line 208.
Bk_MetaFail(self) ==
    /\ Event
    /\ Alive(self) /\ call[self].pc = "meta"
    /\ \E m \in {backups[call[self].script.name].meta, BadMeta} :
          backups' = [backups EXCEPT ![call[self].script.name] = write_meta(@, m)]
    /\ call' = Return(self, FALSE)
    /\ UNCHANGED <<catalog, files, reproduced, procs, sweeps, stop_event, fg, wk>>

\* backup_script_to_folder(script) is entered.
Frame(script) == [pc |-> "mkdir", script |-> script, raw |-> <<>>, ok |-> FALSE]
Enter(self, script) == [call EXCEPT ![self] = Frame(script)]

\* ---------------------------------------------------------------- PendingBackupWorker
\* run() outside a sweep: the sweep's locals are dead.
EndSweep(pc) == [pc |-> pc, scripts |-> <<>>, i |-> 1, pending_any |-> FALSE, changed |-> FALSE]

\* Faulty variant: the stop event is not looked at.
loop_test_ignores_stop(stop) == TRUE

\* line 286: while not self._stop_event.is_set()
loop_test(stop) == ~stop

\* line 286-289: the loop test, then load_scripts.  (The count of sweeps is
\* kept by the specification that needs it.)
W_Load ==
    /\ Alive("wk") /\ wk.pc = "top"
    /\ loop_test(stop_event)
    /\ wk' = [pc |-> "for", scripts |-> load_scripts(catalog), i |-> 1,
              pending_any |-> FALSE, changed |-> FALSE]
    /\ UNCHANGED <<catalog, files, backups, reproduced, procs, stop_event, fg, call, events>>

\* line 286: the stop event is set, the loop ends.
W_Stopped ==
    /\ Alive("wk") /\ wk.pc = "top"
    /\ ~loop_test(stop_event)
    /\ wk' = [wk EXCEPT !.pc = "done"]
    /\ UNCHANGED <<catalog, files, backups, reproduced, procs, sweeps, stop_event, fg, call, events>>

\* lines 290-296: the next record of the snapshot.
W_For ==
    /\ Alive("wk") /\ wk.pc = "for" /\ wk.i <= Len(wk.scripts)
    /\ LET s == wk.scripts[wk.i] IN
         IF ~s.pending_backup
           THEN /\ wk' = [wk EXCEPT !.i = @ + 1]
                /\ call' = call
         ELSE IF is_running(s.path)
           THEN /\ wk' = [wk EXCEPT !.i = @ + 1, !.pending_any = TRUE]
                /\ call' = call
         ELSE /\ wk' = [wk EXCEPT !.pc = "call", !.pending_any = TRUE]
              /\ call' = Enter("wk", s)
    /\ UNCHANGED <<catalog, files, backups, reproduced, procs, sweeps, stop_event, fg, events>>

\* lines 296-299: ok = backup_script_to_folder(s); if ok: pop, changed.
W_Ret ==
    /\ Alive("wk") /\ wk.pc = "call" /\ call["wk"].pc = "ret"
    /\ wk' = IF call["wk"].ok
               THEN [wk EXCEPT !.pc = "for", !.i = @ + 1, !.changed = TRUE,
                               !.scripts[wk.i] = pop_pending(@)]
               ELSE [wk EXCEPT !.pc = "for", !.i = @ + 1]
    /\ call' = [call EXCEPT !["wk"] = NoCall]
    /\ UNCHANGED <<catalog, files, backups, reproduced, procs, sweeps, stop_event, fg, events>>

\* an exception of backup_script_to_folder leaves run(): the thread dies.
W_Raised ==
    /\ Alive("wk") /\ wk.pc = "call" /\ call["wk"].pc = "raised"
    /\ wk' = EndSweep("crashed")
    /\ call' = [call EXCEPT !["wk"] = NoCall]
    /\ UNCHANGED <<catalog, files, backups, reproduced, procs, sweeps, stop_event, fg, events>>

\* Faulty variant: the worker never returns.
after_sweep_always_sleeps(pending_any) == "sleep"

\* Where run() goes after a sweep (lines 302-306); the sweep's locals are dead.
after_sweep(pending_any) == IF pending_any THEN "sleep" ELSE "done"

\* Faulty variant: the snapshot is saved after every sweep.
must_save_always(changed) == TRUE

\* line 300: if changed
must_save(changed) == changed

\* lines 300-301, first half of save_scripts: the file is opened for writing.
W_SaveOpen ==
    /\ Alive("wk") /\ wk.pc = "for" /\ wk.i > Len(wk.scripts)
    /\ must_save(wk.changed)
    /\ catalog' = save_open(catalog)
    /\ wk' = [wk EXCEPT !.pc = "dump"]
    /\ UNCHANGED <<files, backups, reproduced, procs, sweeps, stop_event, fg, call, events>>

\* line 301, second half: the snapshot is dumped; then lines 302-306.
W_SaveDump ==
    /\ Alive("wk") /\ wk.pc = "dump"
    /\ catalog' = save_dump(wk.scripts)
    /\ wk' = EndSweep(after_sweep(wk.pending_any))
    /\ UNCHANGED <<files, backups, reproduced, procs, sweeps, stop_event, fg, call, events>>

\* lines 300-306 with nothing changed: no save.
W_NoSave ==
    /\ Alive("wk") /\ wk.pc = "for" /\ wk.i > Len(wk.scripts)
    /\ ~must_save(wk.changed)
    /\ wk' = EndSweep(after_sweep(wk.pending_any))
    /\ UNCHANGED <<catalog, files, backups, reproduced, procs, sweeps, stop_event, fg, call, events>>

\* line 306: time.sleep(poll_interval) returns.
W_Sleep ==
    /\ Alive("wk") /\ wk.pc = "sleep"
    /\ wk' = [wk EXCEPT !.pc = "top"]
    /\ UNCHANGED <<catalog, files, backups, reproduced, procs, sweeps, stop_event, fg, call, events>>

\* line 308-309: stop(), callable from any thread at any time.
Stop ==
    /\ Event
    /\ Running /\ ~stop_event
    /\ stop_event' = TRUE
    /\ UNCHANGED <<catalog, files, backups, reproduced, procs, sweeps, fg, wk, call>>

\* ---------------------------------------------------------------- BackupArchive.restore
\* The keys of a dict in some fixed iteration order.
RECURSIVE KeySeq(_)
KeySeq(S) == IF S = {} THEN <<>> ELSE LET k == CHOOSE x \in S : TRUE IN <<k>> \o KeySeq(S \ {k})

NoResult == [written |-> 0, warnings |-> {}]

\* A manifest entry without a "backup_file" key: info.get gives None.
NoFile == <<"", "">>

\* Faulty variant: the output file is opened "ab".
write_out_appends(out, orig_name, data) ==
    [out EXCEPT !.files = Put(@, orig_name,
        (IF orig_name \in DOMAIN out.files THEN out.files[orig_name] ELSE <<>>) \o data)]

\* open(out_path, "wb").write(data)
write_out(out, orig_name, data) == [out EXCEPT !.files = Put(@, orig_name, data)]

\* The exception handler of line 252: it is outside the for loop, so the loop
\* is left and the entries not yet visited are not processed.
abort_loop(acc) ==
    [acc EXCEPT !.aborted = TRUE, !.warnings = @ \cup {<<"failed reading metadata", "">>}]

\* Faulty variant: a blob that fails to decompress ends the loop.
restore_entry_corrupt_aborts(dir, orig_name, info, acc) ==
    IF info.backup_file = NoFile THEN abort_loop(acc)
    ELSE IF info.backup_file \notin DOMAIN dir.blobs
      THEN [acc EXCEPT !.warnings = @ \cup {<<"missing", orig_name>>}]
    ELSE IF ~decompress_ok(dir.blobs[info.backup_file]) THEN abort_loop(acc)
    ELSE IF orig_name \in acc.out.readonly THEN abort_loop(acc)
    ELSE LET data == decompress_bytes(dir.blobs[info.backup_file]) IN
         [acc EXCEPT !.out = write_out(@, orig_name, data),
                     !.written = @ + 1,
                     !.warnings = IF info.sha256 # 0 /\ info.sha256 # sha256_bytes(data)
                                    THEN @ \cup {<<"mismatch", orig_name>>}
                                    ELSE @]

\* Faulty variant: a digest mismatch skips the file.
restore_entry_gated(dir, orig_name, info, acc) ==
    IF info.backup_file = NoFile THEN abort_loop(acc)
    ELSE IF info.backup_file \notin DOMAIN dir.blobs
      THEN [acc EXCEPT !.warnings = @ \cup {<<"missing", orig_name>>}]
    ELSE IF ~decompress_ok(dir.blobs[info.backup_file])
      THEN [acc EXCEPT !.warnings = @ \cup {<<"corrupt", orig_name>>}]
    ELSE IF info.sha256 # 0 /\ info.sha256 # sha256_bytes(decompress_bytes(dir.blobs[info.backup_file]))
      THEN [acc EXCEPT !.warnings = @ \cup {<<"mismatch", orig_name>>}]
    ELSE IF orig_name \in acc.out.readonly THEN abort_loop(acc)
    ELSE [acc EXCEPT !.out = write_out(@, orig_name, decompress_bytes(dir.blobs[info.backup_file])),
                     !.written = @ + 1]

\* lines 232-251: one manifest entry; acc is the target directory and the
\* running count and messages.  os.path.join(folder, None) at 234 and
\* open(out_path, "wb") at 245 raise into the handler of line 252.
restore_entry(dir, orig_name, info, acc) ==
    IF info.backup_file = NoFile THEN abort_loop(acc)
    ELSE IF info.backup_file \notin DOMAIN dir.blobs
      THEN [acc EXCEPT !.warnings = @ \cup {<<"missing", orig_name>>}]
    ELSE IF ~decompress_ok(dir.blobs[info.backup_file])
      THEN [acc EXCEPT !.warnings = @ \cup {<<"corrupt", orig_name>>}]
    ELSE IF orig_name \in acc.out.readonly THEN abort_loop(acc)
    ELSE LET data == decompress_bytes(dir.blobs[info.backup_file]) IN
         [acc EXCEPT !.out = write_out(@, orig_name, data),
                     !.written = @ + 1,
                     !.warnings = IF info.sha256 # 0 /\ info.sha256 # sha256_bytes(data)
                                    THEN @ \cup {<<"mismatch", orig_name>>}
                                    ELSE @]

RECURSIVE restore_entries(_, _, _)
restore_entries(dir, keys, acc) ==
    IF keys = <<>> \/ acc.aborted THEN acc
    ELSE restore_entries(dir, Tail(keys),
             restore_entry(dir, Head(keys), dir.meta.files[Head(keys)], acc))

\* lines 256-270: no manifest, every *.gz of the directory is decompressed.
\* No handler here: open(out_path, "wb") raising leaves the function.
fallback_entry(dir, f, acc) ==
    IF ~decompress_ok(dir.blobs[f])
      THEN [acc EXCEPT !.warnings = @ \cup {<<"corrupt", f>>}]
    ELSE IF strip_gz(f) \in acc.out.readonly
      THEN [acc EXCEPT !.aborted = TRUE, !.raised = TRUE]
    ELSE [acc EXCEPT !.out = write_out(@, strip_gz(f), decompress_bytes(dir.blobs[f])),
                     !.written = @ + 1]

RECURSIVE fallback_entries(_, _, _)
fallback_entries(dir, fs, acc) ==
    IF fs = <<>> \/ acc.aborted THEN acc
    ELSE fallback_entries(dir, Tail(fs),
             IF endswith_gz(Head(fs)) THEN fallback_entry(dir, Head(fs), acc) ELSE acc)

\* Faulty variant: the target directory is made before the archive is looked for.
reproduce_makes_target_first(dir, out) ==
    [out |-> [out EXCEPT !.exists = TRUE], written |-> 0,
     warnings |-> {<<"no backup folder", "">>}, aborted |-> FALSE, raised |-> FALSE]

\* lines 216-220: no archive directory, nothing is touched.
no_backup_found(dir, out) ==
    [out |-> out, written |-> 0, warnings |-> {<<"no backup folder", "">>},
     aborted |-> FALSE, raised |-> FALSE]

\* reproduce_script_to_default, lines 216-275: the target directory after the
\* call, the count of files written and the messages printed.
reproduce_script_to_default(dir, out) ==
    LET start == [out |-> [out EXCEPT !.exists = TRUE], written |-> 0, warnings |-> {},
                  aborted |-> FALSE, raised |-> FALSE] IN
    IF ~dir.exists THEN no_backup_found(dir, out)
    ELSE IF dir.meta.state = "corrupt" THEN abort_loop(start)
    ELSE IF dir.meta.state = "ok"
      THEN restore_entries(dir, KeySeq(DOMAIN dir.meta.files), start)
    ELSE fallback_entries(dir, KeySeq(DOMAIN dir.blobs), start)

\* ---------------------------------------------------------------- foreground menu
FgStart == [pc |-> "menu", scripts |-> <<>>, op |-> "", idx |-> 0, n |-> 0, result |-> NoResult]

Remove(seq, i) == SubSeq(seq, 1, i - 1) \o SubSeq(seq, i + 1, Len(seq))

\* line 493: scripts = load_scripts(), then the menu is shown.  (Choices 1, 5,
\* 6 and an invalid choice change nothing the model holds and come back here.)
Fg_Load ==
    /\ fg.pc = "menu"
    /\ fg' = [fg EXCEPT !.pc = "input", !.scripts = load_scripts(catalog)]
    /\ UNCHANGED <<catalog, files, backups, reproduced, procs, sweeps, stop_event, wk, call, events>>

\* add_script_interactive, lines 325-343.
Fg_Add(name, path) ==
    /\ fg.pc = "input" /\ Inputs < MaxInputs
    /\ LET script == Script(name, path, FALSE) IN
         IF is_running(path)
           THEN /\ fg' = [fg EXCEPT !.pc = "save", !.op = "add", !.n = @ + 1,
                                    !.scripts = Append(@, set_pending(script))]
                /\ call' = call
           ELSE /\ fg' = [fg EXCEPT !.pc = "call", !.op = "add", !.n = @ + 1]
                /\ call' = Enter("fg", script)
    /\ UNCHANGED <<catalog, files, backups, reproduced, procs, sweeps, stop_event, wk, events>>

\* lines 372-384: a backup is needed unless the manifest of new_name reads
\* and lists a file.
need_backup(dir) == ~(dir.meta.state = "ok" /\ DOMAIN dir.meta.files # {})

\* modify_script_interactive, lines 360-389.
Fg_Modify(idx, new_name, new_path) ==
    /\ fg.pc = "input" /\ Inputs < MaxInputs
    /\ idx \in 1..Len(fg.scripts)
    /\ LET s == [fg.scripts[idx] EXCEPT !.name = new_name, !.path = new_path] IN
         IF is_running(new_path)
           THEN /\ fg' = [fg EXCEPT !.pc = "save", !.op = "modify", !.idx = idx, !.n = @ + 1,
                                    !.scripts[idx] = set_pending(s)]
                /\ call' = call
         ELSE IF need_backup(backups[new_name])
           THEN /\ fg' = [fg EXCEPT !.pc = "call", !.op = "modify", !.idx = idx, !.n = @ + 1,
                                    !.scripts[idx] = s]
                /\ call' = Enter("fg", s)
         ELSE /\ fg' = [fg EXCEPT !.pc = "save", !.op = "modify", !.idx = idx, !.n = @ + 1,
                                  !.scripts[idx] = s]
              /\ call' = call
    /\ UNCHANGED <<catalog, files, backups, reproduced, procs, sweeps, stop_event, wk, events>>

\* delete_script_interactive, lines 406-407.
Fg_Delete(idx) ==
    /\ fg.pc = "input" /\ Inputs < MaxInputs
    /\ idx \in 1..Len(fg.scripts)
    /\ fg' = [fg EXCEPT !.pc = "save", !.op = "delete", !.idx = idx, !.n = @ + 1,
                        !.scripts = Remove(@, idx)]
    /\ UNCHANGED <<catalog, files, backups, reproduced, procs, sweeps, stop_event, wk, call, events>>

\* backup_now_interactive, lines 458-463.
Fg_BackupNow(idx) ==
    /\ fg.pc = "input" /\ Inputs < MaxInputs
    /\ idx \in 1..Len(fg.scripts)
    /\ IF is_running(fg.scripts[idx].path)
         THEN /\ fg' = [fg EXCEPT !.pc = "save", !.op = "backup", !.idx = idx, !.n = @ + 1,
                                  !.scripts[idx] = set_pending(@)]
              /\ call' = call
         ELSE /\ fg' = [fg EXCEPT !.pc = "call", !.op = "backup", !.idx = idx, !.n = @ + 1]
              /\ call' = Enter("fg", fg.scripts[idx])
    /\ UNCHANGED <<catalog, files, backups, reproduced, procs, sweeps, stop_event, wk, events>>

\* What the caller does with the record once backup_script_to_folder has
\* returned ok: add (line 344) appends it, modify (line 390) and backup-now
\* (line 464) pop the pending flag.
after_backup(op, s, ok) == IF op = "add" THEN s ELSE pop_pending(s)

Fg_Ret ==
    /\ fg.pc = "call" /\ call["fg"].pc = "ret"
    /\ fg' = IF fg.op = "add"
               THEN [fg EXCEPT !.pc = "save",
                               !.scripts = Append(@, after_backup(fg.op, call["fg"].script, call["fg"].ok))]
               ELSE [fg EXCEPT !.pc = "save",
                               !.scripts[fg.idx] = after_backup(fg.op, @, call["fg"].ok)]
    /\ call' = [call EXCEPT !["fg"] = NoCall]
    /\ UNCHANGED <<catalog, files, backups, reproduced, procs, sweeps, stop_event, wk, events>>

\* an exception of backup_script_to_folder leaves the handler and main():
\* the program ends with a traceback.
Fg_Raised ==
    /\ fg.pc = "call" /\ call["fg"].pc = "raised"
    /\ fg' = [FgStart EXCEPT !.pc = "crashed", !.n = fg.n]
    /\ call' = [call EXCEPT !["fg"] = NoCall]
    /\ UNCHANGED <<catalog, files, backups, reproduced, procs, sweeps, stop_event, wk, events>>

\* save_scripts(scripts) of the handlers, first half.
Fg_SaveOpen ==
    /\ fg.pc = "save"
    /\ catalog' = save_open(catalog)
    /\ fg' = [fg EXCEPT !.pc = "dump"]
    /\ UNCHANGED <<files, backups, reproduced, procs, sweeps, stop_event, wk, call, events>>

\* second half; the handler returns to the menu loop.
Fg_SaveDump ==
    /\ fg.pc = "dump"
    /\ catalog' = save_dump(fg.scripts)
    /\ fg' = [FgStart EXCEPT !.n = fg.n]
    /\ UNCHANGED <<files, backups, reproduced, procs, sweeps, stop_event, wk, call, events>>

\* choice 9: main() returns and the process ends, with it the daemon thread.
Fg_Exit ==
    /\ fg.pc = "input"
    /\ fg' = [FgStart EXCEPT !.pc = "exited", !.n = fg.n]
    /\ UNCHANGED <<catalog, files, backups, reproduced, procs, sweeps, stop_event, wk, call, events>>

\* ---------------------------------------------------------------- environment
\* A process naming the path starts, and ends.
ProcStart(p) ==
    /\ Event
    /\ Running /\ ~Live(p)
    /\ procs' = [procs EXCEPT ![p] = Forever]
    /\ UNCHANGED <<catalog, files, backups, reproduced, sweeps, stop_event, fg, wk, call>>

ProcExit(p) ==
    /\ Event
    /\ Running /\ Live(p)
    /\ procs' = [procs EXCEPT ![p] = 0]
    /\ UNCHANGED <<catalog, files, backups, reproduced, sweeps, stop_event, fg, wk, call>>

\* The user edits or removes a source file.
EnvWrite(p, c) ==
    /\ Event
    /\ Running /\ files[p] # File(c)
    /\ files' = [files EXCEPT ![p] = File(c)]
    /\ UNCHANGED <<catalog, backups, reproduced, procs, sweeps, stop_event, fg, wk, call>>

EnvDelete(p) ==
    /\ Event
    /\ Running /\ files[p].exists
    /\ files' = [files EXCEPT ![p] = Missing]
    /\ UNCHANGED <<catalog, backups, reproduced, procs, sweeps, stop_event, fg, wk, call>>

WorkerStart == EndSweep("top")

Create(self) ==
    \/ Bk_Mkdir(self) \/ Bk_NoSource(self) \/ Bk_Read(self) \/ Bk_Blob(self) \/ Bk_Meta(self)

CreateFail(self) ==
    \/ Bk_MkdirFail(self) \/ Bk_NoSourceFail(self) \/ Bk_ReadFail(self)
    \/ Bk_BlobFail(self) \/ Bk_MetaFail(self)

Worker ==
    \/ (W_Load /\ UNCHANGED sweeps) \/ W_Stopped \/ W_For \/ W_Ret \/ W_Raised
    \/ W_SaveOpen \/ W_SaveDump \/ W_NoSave \/ W_Sleep

Foreground ==
    \/ Fg_Load \/ Fg_Ret \/ Fg_Raised \/ Fg_SaveOpen \/ Fg_SaveDump \/ Fg_Exit
    \/ \E name \in Names, path \in Paths : Fg_Add(name, path)
    \/ \E idx \in DOMAIN fg.scripts, name \in Names, path \in Paths : Fg_Modify(idx, name, path)
    \/ \E idx \in DOMAIN fg.scripts : Fg_Delete(idx) \/ Fg_BackupNow(idx)

Environment ==
    \/ \E p \in Paths : ProcStart(p) \/ ProcExit(p) \/ EnvDelete(p)
    \/ \E p \in Paths, c \in Contents : EnvWrite(p, c)

\* ---------------------------------------------------------------- the program
\* main(), lines 485-490: the directories exist, the worker is started.
\* Either a first run: no scripts.json yet, x.py exists and a process runs it;
\* or a later run: an earlier run added x.py while it was running and left
\* its record pending, and that process is gone.  y.py does not exist yet,
\* nothing is archived or reproduced.
Init ==
    /\ \E first \in BOOLEAN :
          /\ catalog = IF first THEN CatAbsent
                       ELSE CatFile(<<Script("a", RunningAtStart, TRUE)>>)
          /\ procs = [p \in Paths |-> IF first /\ p = RunningAtStart THEN Forever ELSE 0]
    /\ files = [p \in Paths |-> IF p = RunningAtStart THEN File(<<0>>) ELSE Missing]
    /\ backups = [n \in Names |-> NoDir]
    /\ reproduced = [n \in Names |-> NoOut]
    /\ sweeps = 0
    /\ events = 0
    /\ stop_event = FALSE
    /\ fg = FgStart
    /\ wk = WorkerStart
    /\ call = [self \in Procs |-> NoCall]

Next ==
    \/ Foreground
    \/ Worker
    \/ \E self \in Procs : Create(self) \/ CreateFail(self)
    \/ Environment
    \/ Stop

Spec == Init /\ [][Next]_vars

\* ---------------------------------------------------------------- convergence scenario
\* One worker polling, nobody else: N records flagged pending, and for each
\* path the process naming it is gone from sweep procs[path] onward.
PendingCatalogs ==
    {c \in SeqsUpTo({Script(n, p, TRUE) : n \in Names, p \in Paths}, MaxRecs) : c # <<>>}

InitConv ==
    /\ catalog \in {CatFile(c) : c \in PendingCatalogs}
    /\ files \in [Paths -> {Missing, File(<<0>>)}]
    /\ backups = [n \in Names |-> NoDir]
    /\ reproduced = [n \in Names |-> NoOut]
    /\ procs \in [Paths -> 0..(MaxSweeps - 1)]
    /\ sweeps = 0
    /\ events = 0
    /\ stop_event = FALSE
    /\ fg = FgStart
    /\ wk = WorkerStart
    /\ call = [self \in Procs |-> NoCall]

CountedSweep == sweeps < MaxSweeps /\ W_Load /\ sweeps' = sweeps + 1

NextConv ==
    \/ CountedSweep \/ W_For \/ W_Ret \/ W_SaveOpen \/ W_SaveDump \/ W_NoSave \/ W_Sleep
    \/ Create("wk")

SpecConv == InitConv /\ [][NextConv]_vars /\ WF_vars(NextConv)

\* ---------------------------------------------------------------- create, then restore
\* backup_script_to_folder(script) followed by reproduce_script_to_default(script)
\* in one thread, for every record, source tree and earlier archive of the bounds.
RoundTripContents == SeqsUpTo(Byte, MaxLen)

\* The archive an earlier backup of path p with content c left.
EarlierArchive(p, c) ==
    write_meta(write_blob(EmptyDir, basename(p), c), backup_meta(Script("", p, FALSE), c))

InitRT ==
    /\ catalog = CatAbsent
    /\ files \in [Paths -> {Missing} \cup {File(c) : c \in RoundTripContents}]
    /\ \E d \in {NoDir} \cup {EarlierArchive(p, <<1>>) : p \in Paths} :
          backups = [n \in Names |-> d]
    /\ reproduced = [n \in Names |-> NoOut]
    /\ procs = [p \in Paths |-> 0]
    /\ sweeps = 0
    /\ events = 0
    /\ stop_event = FALSE
    /\ fg = [FgStart EXCEPT !.pc = "call", !.op = "backup"]
    /\ wk = EndSweep("done")
    /\ \E n \in Names, p \in Paths :
          call = [self \in Procs |-> IF self = "fg" THEN Frame(Script(n, p, FALSE))
                                    ELSE NoCall]

\* reproduce_script_to_default(s), line 480, once the backup has returned.
RT_Restore ==
    /\ fg.pc = "call" /\ call["fg"].pc = "ret"
    /\ LET name == call["fg"].script.name
           r == reproduce_script_to_default(backups[name], reproduced[name]) IN
         /\ reproduced' = [reproduced EXCEPT ![name] = r.out]
         /\ fg' = [fg EXCEPT !.pc = "restored", !.op = "reproduce",
                             !.result = [written |-> r.written, warnings |-> r.warnings]]
    /\ UNCHANGED <<catalog, files, backups, procs, sweeps, events, stop_event, wk, call>>

NextRT == Create("fg") \/ CreateFail("fg") \/ RT_Restore

SpecRT == InitRT /\ [][NextRT]_vars

\* ---------------------------------------------------------------- restore of any archive
\* reproduce_script_to_default on whatever backups/<name>/ holds: archives
\* this program wrote, and archives that were edited, copied in or damaged.
EntryNames == {"x.py", "y.py", "z.py"}

\* What an entry of the manifest and its blob are like.
EntryKinds == {"sound", "missing", "corrupt", "mismatch", "noname", "nosha"}

\* The manifest entry of file k.
EntryInfo(k, kind) ==
    IF kind = "noname" THEN [file_entry(k, <<1>>) EXCEPT !.backup_file = NoFile]
    ELSE IF kind = "nosha" THEN [file_entry(k, <<1>>) EXCEPT !.sha256 = 0]
    ELSE file_entry(k, <<1>>)

\* The blob of file k: written by a backup of <<1>>, cut short, or the blob
\* of other content.
EntryBlob(kind) ==
    IF kind = "corrupt" THEN SubSeq(compress_bytes(<<1>>), 1, Len(compress_bytes(<<1>>)) - 1)
    ELSE IF kind = "mismatch" THEN compress_bytes(<<0>>)
    ELSE compress_bytes(<<1>>)

HasBlob(kind) == kind \in {"sound", "corrupt", "mismatch", "nosha"}

\* backups/<name>/ with a manifest; kinds maps the files it lists to their kind.
ManifestDir(kinds) ==
    [exists |-> TRUE,
     blobs |-> [f \in {gz_name(k) : k \in {e \in DOMAIN kinds : HasBlob(kinds[e])}}
                  |-> EntryBlob(kinds[strip_gz(f)])],
     meta |-> [state |-> "ok", original_path |-> <<"d1", "x.py">>,
               files |-> [k \in DOMAIN kinds |-> EntryInfo(k, kinds[k])]]]

\* The same directory without its metadata.json, and with a file that is no blob.
FallbackDir(kinds) ==
    [ManifestDir(kinds) EXCEPT !.meta = NoMeta, !.blobs = Put(@, <<"notes", "txt">>, <<7>>)]

KindMaps == UNION {[S -> EntryKinds] : S \in SUBSET EntryNames}

ArchiveDirs ==
    {NoDir}
      \cup {ManifestDir(m) : m \in KindMaps}
      \cup {FallbackDir(m) : m \in {k \in KindMaps : \A e \in DOMAIN k : k[e] \in {"sound", "corrupt"}}}
      \cup {[ManifestDir(m) EXCEPT !.meta = BadMeta] : m \in [EntryNames -> {"sound"}]}

\* reproduced/<name>/: not there, or left by an earlier restore, possibly with
\* a name that cannot be written.
OutDirs ==
    {NoOut} \cup
    {[exists |-> TRUE, files |-> f, readonly |-> r] :
        f \in {EmptyMap, Put(EmptyMap, "x.py", <<0>>)},
        r \in {{}} \cup {{k} : k \in EntryNames}}

InitRestore ==
    /\ catalog = CatAbsent
    /\ files = [p \in Paths |-> Missing]
    /\ \E d \in ArchiveDirs : backups = [n \in Names |-> d]
    /\ \E o \in OutDirs : reproduced = [n \in Names |-> o]
    /\ procs = [p \in Paths |-> 0]
    /\ sweeps = 0
    /\ events = 0
    /\ stop_event = FALSE
    /\ fg = FgStart
    /\ wk = EndSweep("done")
    /\ call = [self \in Procs |-> NoCall]

\* reproduce_interactive, lines 467-481: reproduce_script_to_default(s) for the
\* chosen record; an exception leaving it ends the menu loop.
RS_Restore(name) ==
    /\ fg.pc \in {"menu", "restored"} /\ fg.n < MaxRestores
    /\ LET r == reproduce_script_to_default(backups[name], reproduced[name]) IN
         /\ reproduced' = [reproduced EXCEPT ![name] = r.out]
         /\ fg' = [fg EXCEPT !.pc = IF r.raised THEN "crashed" ELSE "restored",
                             !.op = "reproduce",
                             !.n = @ + 1,
                             !.scripts = <<Script(name, <<"d1", "x.py">>, FALSE)>>,
                             !.idx = 1,
                             !.result = [written |-> r.written, warnings |-> r.warnings]]
    /\ UNCHANGED <<catalog, files, backups, procs, sweeps, events, stop_event, wk, call>>

NextRestore == \E name \in Names : RS_Restore(name)

SpecRestore == InitRestore /\ [][NextRestore]_vars

\* ---------------------------------------------------------------- properties
Max(S) == CHOOSE x \in S : \A y \in S : y <= x
Pending(scripts) == {i \in 1..Len(scripts) : scripts[i].pending_backup}
NoPending == catalog.state = "ok" /\ Pending(catalog.scripts) = {}

\* The records of the scenario: the catalog, or the list the worker is writing.
ConvRecs == IF catalog.state = "ok" THEN catalog.scripts ELSE wk.scripts

\* k_i: the first sweep in which is_running(path) is false.
KOf(path) == Max({1} \cup {procs[q] : q \in {r \in Paths : r = path \/ basename(r) = basename(path)}})
LastFlip == Max({KOf(ConvRecs[i].path) : i \in 1..Len(ConvRecs)})
SweepEnded(m) == sweeps > m \/ (sweeps = m /\ wk.pc \in {"sleep", "top", "done"})
SourcesExist == \A i \in 1..Len(ConvRecs) : files[ConvRecs[i].path].exists

\* C1 as stated: once sweep max(k_i) has ended, no record of the catalog is
\* flagged pending.
C1_ClearedByLastFlip == SweepEnded(LastFlip) => NoPending

\* C1 amended: if every record's source file exists (and no I/O fails), the
\* worker has cleared every pending flag by the end of sweep max(k_i), and its
\* run loop then returns, at the end of the sweep after that one.
C1_Convergence ==
    /\ [](SourcesExist => (SweepEnded(LastFlip) => NoPending))
    /\ [](SourcesExist /\ wk.pc = "done" => sweeps = LastFlip + 1)
    /\ (SourcesExist ~> wk.pc = "done")

\* C1 witness: two records whose processes end at different sweeps, all
\* cleared and the worker returned.
C1_Witness ==
    /\ SourcesExist /\ NoPending /\ wk.pc = "done"
    /\ Len(catalog.scripts) = 2 /\ LastFlip = 2
    /\ KOf(catalog.scripts[1].path) # KOf(catalog.scripts[2].path)

\* The names of the records of a list.
NamesOf(scripts) == {scripts[i].name : i \in 1..Len(scripts)}

\* C2: when the worker saves its snapshot over the catalog the foreground
\* saved, every record of that catalog is still there after the save.
C2_NoRecordDeleted ==
    [][(wk.pc = "for" /\ wk'.pc = "dump" /\ catalog.state = "ok")
         => NamesOf(catalog.scripts) \subseteq NamesOf(wk.scripts)]_vars

\* The record a foreground handler works on, in the list the handler holds.
FgTarget(f) == IF f.op = "add" THEN f.scripts[Len(f.scripts)] ELSE f.scripts[f.idx]

\* C3: a thread sets pending_backup only when is_running(path) deferred the
\* backup, and takes a set flag away only when its backup_script_to_folder
\* call returned True.
C3_PendingLifecycle ==
    [][/\ (fg.pc = "input" /\ fg'.pc = "save" /\ fg'.op # "delete"
            /\ FgTarget(fg').pending_backup
            /\ (fg'.op = "add" \/ ~fg.scripts[fg'.idx].pending_backup))
           => is_running(FgTarget(fg').path)
       /\ (fg.pc = "call" /\ fg'.pc = "save" /\ fg.op # "add"
            /\ fg.scripts[fg.idx].pending_backup /\ ~fg'.scripts[fg.idx].pending_backup)
           => call["fg"].ok
       /\ (wk.pc = "call" /\ wk'.pc = "for"
            /\ wk.scripts[wk.i].pending_backup /\ ~wk'.scripts[wk.i].pending_backup)
           => call["wk"].ok]_vars

\* C4: at the step at which add, modify or backup-now defers a backup because
\* the file is in use, a worker is polling.
C4_DeferredIsScheduled ==
    [][(fg.pc = "input" /\ fg'.pc = "save" /\ fg'.op # "delete"
          /\ is_running(FgTarget(fg').path))
         => wk.pc \notin {"done", "crashed"}]_vars

\* The step that ends a sweep.
SweepEnds == wk.pc \in {"for", "dump"} /\ wk'.pc \in {"sleep", "done"}

\* C5 as stated: if no record of the snapshot is pending when a sweep ends,
\* run() returns at once, without a sleep.
C5_IdleWhenNonePending ==
    [][(SweepEnds /\ Pending(wk.scripts) = {}) => wk'.pc = "done"]_vars

\* C5 amended: run() returns directly after a sweep exactly if the snapshot
\* the sweep loaded held no pending record (none is pending at its end and the
\* sweep cleared none); after a sweep that cleared the last flag it sleeps
\* first.  Once returned, the worker does nothing more.
C5_IdleWhenNoneSeenPending ==
    /\ [][SweepEnds => (wk'.pc = "done" <=> (Pending(wk.scripts) = {} /\ ~wk.changed))]_vars
    /\ [][wk.pc = "done" => wk' = wk]_vars

\* C5 witness: the worker has returned and the catalog holds records, none pending.
C5_Witness == wk.pc = "done" /\ NoPending /\ catalog.scripts # <<>> /\ ~stop_event

\* C6 as stated: once stop() is raised the worker does not go to sleep again.
C6_NoSleepAfterStop ==
    [][(stop_event /\ wk.pc # "sleep") => wk'.pc # "sleep"]_vars

\* C6 amended: once stop() is raised the worker ends the sweep and the sleep
\* it is in, starts no further sweep, and returns at the loop test; a
\* save_scripts it has begun is finished with its own snapshot.
C6_StopBeforeNextSweep ==
    /\ [][stop_event => ~(wk.pc = "top" /\ wk'.pc = "for")]_vars
    /\ [][(stop_event /\ wk.pc = "top" /\ wk' # wk) => wk'.pc = "done"]_vars
    /\ [][(wk.pc = "dump" /\ wk' # wk) => catalog' = CatFile(wk.scripts)]_vars

\* C6 witness: stopped with work left, the worker has returned.
C6_Witness ==
    /\ stop_event /\ wk.pc = "done"
    /\ catalog.state = "ok" /\ Pending(catalog.scripts) # {}

\* C7: every entry of a manifest names a blob that is in the archive directory.
C7_BlobBeforeManifest ==
    \A n \in Names :
        \A k \in DOMAIN backups[n].meta.files :
            backups[n].meta.files[k].backup_file \in DOMAIN backups[n].blobs

\* C7 witness: the worker is between its blob and its manifest while the
\* manifest of the same archive, written by the foreground, lists a file.
C7_Witness ==
    /\ call["wk"].pc = "meta"
    /\ DOMAIN backups[call["wk"].script.name].meta.files # {}

\* C8: after a create that returned True for a source with content C, restore
\* writes reproduced/<name>/<base> with the bytes C, whose digest is the
\* manifest's, and reports no warning.
C8_RoundTrip ==
    (fg.pc = "restored" /\ call["fg"].ok) =>
        LET s == call["fg"].script
            base == basename(s.path)
            out == reproduced[s.name]
        IN  /\ out.exists /\ base \in DOMAIN out.files
            /\ out.files[base] = files[s.path].data
            /\ sha256_bytes(out.files[base]) = backups[s.name].meta.files[base].sha256
            /\ fg.result = [written |-> 1, warnings |-> {}]

\* C8 witness: a two-byte source restored over an archive that held an
\* earlier backup of another file.
C8_Witness ==
    /\ fg.pc = "restored" /\ call["fg"].ok
    /\ Len(files[call["fg"].script.path].data) = 2
    /\ Cardinality(DOMAIN backups[call["fg"].script.name].blobs) = 2
    /\ reproduced[call["fg"].script.name].files[basename(call["fg"].script.path)]
         = files[call["fg"].script.path].data

\* The thread's create call takes the missing-source path and returns.
NoSourceReturn(self) ==
    call[self].pc = "src" /\ ~files[call[self].script.path].exists /\ call'[self].pc = "ret"

C10_CreateNeverRaises ==
    /\ \A self \in Procs : call[self].pc # "raised"
    /\ fg.pc # "crashed" /\ wk.pc # "crashed"

\* A restore of the record called name is taken.
Restores(name) ==
    /\ fg.pc \in {"menu", "restored"} /\ fg'.op = "reproduce"
    /\ fg'.scripts = <<Script(name, <<"d1", "x.py">>, FALSE)>>

\* C11: a restore of a name that has no backups/<name>/ reports that no backup
\* folder was found and creates or changes nothing: reproduced/, the catalog
\* and backups/ are as before.
C11_NoArchive ==
    [][\A name \in Names :
         (Restores(name) /\ ~backups[name].exists) =>
            /\ fg'.result = [written |-> 0, warnings |-> {<<"no backup folder", "">>}]
            /\ fg'.pc = "restored"
            /\ reproduced' = reproduced /\ backups' = backups /\ catalog' = catalog]_vars

\* C11 witness: restore was called without an archive and there is still no
\* reproduced/<name>/.
C11_Witness ==
    /\ fg.pc = "restored" /\ fg.result.warnings = {<<"no backup folder", "">>}
    /\ ~backups[fg.scripts[1].name].exists
    /\ ~reproduced[fg.scripts[1].name].exists

\* The entries of the manifest of an archive, and what restore finds for them.
Entries(dir) == DOMAIN dir.meta.files
BlobOf(dir, k) == dir.blobs[dir.meta.files[k].backup_file]
EntryHasBlob(dir, k) == dir.meta.files[k].backup_file \in DOMAIN dir.blobs
EntryCorrupt(dir, k) == EntryHasBlob(dir, k) /\ ~decompress_ok(BlobOf(dir, k))
EntryDecodes(dir, k) == EntryHasBlob(dir, k) /\ decompress_ok(BlobOf(dir, k))
EntryMismatch(dir, k) ==
    /\ EntryDecodes(dir, k)
    /\ dir.meta.files[k].sha256 # 0
    /\ dir.meta.files[k].sha256 # sha256_bytes(decompress_bytes(BlobOf(dir, k)))
EntrySound(dir, k) == EntryDecodes(dir, k) /\ ~EntryMismatch(dir, k)

\* File k of a target directory is as it was.
Untouched(before, after, k) ==
    /\ (k \in DOMAIN after.files) = (k \in DOMAIN before.files)
    /\ k \in DOMAIN before.files => after.files[k] = before.files[k]

\* A manifest of several entries, one with a blob that does not decompress,
\* the others sound and their output files writable.
OneCorrupt(dir, out, bad) ==
    /\ dir.exists /\ dir.meta.state = "ok"
    /\ bad \in Entries(dir) /\ Cardinality(Entries(dir)) >= 2
    /\ EntryCorrupt(dir, bad)
    /\ \A k \in Entries(dir) \ {bad} : EntrySound(dir, k) /\ k \notin out.readonly

\* C12: with exactly one entry whose blob fails to decompress, restore writes
\* the file of every other entry, writes nothing for the corrupt one, reports
\* one warning, and counts the other entries.
C12_CorruptBlob ==
    [][\A name \in Names : \A bad \in EntryNames :
         (Restores(name) /\ OneCorrupt(backups[name], reproduced[name], bad)) =>
            /\ \A k \in Entries(backups[name]) \ {bad} :
                   /\ k \in DOMAIN reproduced'[name].files
                   /\ reproduced'[name].files[k] = decompress_bytes(BlobOf(backups[name], k))
            /\ Untouched(reproduced[name], reproduced'[name], bad)
            /\ fg'.result.warnings = {<<"corrupt", bad>>}
            /\ fg'.result.written = Cardinality(Entries(backups[name])) - 1]_vars

\* C12 witness: three entries, the blob of one cut short, two files restored.
C12_Witness ==
    /\ fg.pc = "restored"
    /\ \E bad \in EntryNames :
          /\ OneCorrupt(backups[fg.scripts[1].name], reproduced[fg.scripts[1].name], bad)
          /\ fg.result = [written |-> 2, warnings |-> {<<"corrupt", bad>>}]
          /\ DOMAIN reproduced[fg.scripts[1].name].files = EntryNames \ {bad}

\* C13: a failure of one manifest entry (blob missing, blob that does not
\* decompress, no backup_file name, output file that cannot be written) does
\* not keep restore from the other entries: every entry whose blob decodes and
\* whose output file can be written is restored.
C13_PerFileIsolation ==
    [][\A name \in Names :
         (Restores(name) /\ backups[name].exists /\ backups[name].meta.state = "ok") =>
            \A k \in Entries(backups[name]) :
                (EntryDecodes(backups[name], k) /\ k \notin reproduced[name].readonly) =>
                    /\ k \in DOMAIN reproduced'[name].files
                    /\ reproduced'[name].files[k] = decompress_bytes(BlobOf(backups[name], k))]_vars

\* No entry of the manifest ends the loop early: each has a backup_file name
\* and, if its blob decodes, an output file that can be written.
LoopCompletes(dir, out) ==
    \A k \in Entries(dir) :
        /\ dir.meta.files[k].backup_file # NoFile
        /\ EntryDecodes(dir, k) => k \notin out.readonly

\* C14: an entry whose blob decodes to bytes with another digest than the
\* recorded sha256 is written all the same, is counted, and gets a mismatch
\* warning.
C14_MismatchNotAGate ==
    [][\A name \in Names : \A k \in EntryNames :
         (/\ Restores(name)
          /\ backups[name].exists /\ backups[name].meta.state = "ok"
          /\ k \in Entries(backups[name]) /\ EntryMismatch(backups[name], k)
          /\ LoopCompletes(backups[name], reproduced[name])) =>
            /\ k \in DOMAIN reproduced'[name].files
            /\ reproduced'[name].files[k] = decompress_bytes(BlobOf(backups[name], k))
            /\ <<"mismatch", k>> \in fg'.result.warnings
            /\ fg'.pc = "restored"
            /\ fg'.result.written =
                  Cardinality({e \in Entries(backups[name]) : EntryDecodes(backups[name], e)})]_vars

\* C14 witness: the only warning of a restore is a mismatch, and the file is there.
C14_Witness ==
    /\ fg.pc = "restored"
    /\ \E k \in EntryNames :
          /\ k \in Entries(backups[fg.scripts[1].name])
          /\ EntryMismatch(backups[fg.scripts[1].name], k)
          /\ fg.result = [written |-> 1, warnings |-> {<<"mismatch", k>>}]
          /\ reproduced[fg.scripts[1].name].files = Put(EmptyMap, k, <<0>>)

\* C15: a second restore of the same record, with no create in between,
\* leaves reproduced/<name>/ with the same files and contents as the first,
\* and reports the same.
C15_IdempotentRestore ==
    [][\A name \in Names :
         (Restores(name) /\ fg.pc = "restored" /\ fg.scripts[1].name = name) =>
            /\ reproduced'[name] = reproduced[name]
            /\ fg'.result = fg.result]_vars

\* C15 witness: two restores of one record were made and files were written.
C15_Witness ==
    /\ fg.pc = "restored" /\ fg.n = 2
    /\ reproduced[fg.scripts[1].name].files # EmptyMap
    /\ \A n \in Names \ {fg.scripts[1].name} : ~reproduced[n].exists
    /\ fg.result.written >= 2

\* The create call of the create-then-restore scenario: its record, and the
\* archive as it was before the call.  (Every archive starts the same there and
\* the call writes only its own, so the other name's archive is the earlier one.)
RTScript == call["fg"].script
RTArchive == backups[RTScript.name]
RTBefore == backups[CHOOSE m \in Names : m # RTScript.name]
RTSources == IF files[RTScript.path].exists THEN {basename(RTScript.path)} ELSE {}
RTEnded == call["fg"].pc \in {"ret", "raised"}
RTCreated == call["fg"].pc = "ret" /\ call["fg"].ok
RTNoSource == call["fg"].pc = "ret" /\ ~call["fg"].ok /\ ~files[RTScript.path].exists
RTFailed == RTEnded /\ ~RTCreated /\ ~RTNoSource

\* The manifest this call writes.
RTManifest ==
    IF files[RTScript.path].exists THEN backup_meta(RTScript, files[RTScript.path].data)
    ELSE no_source_meta(RTScript)

\* C16 as stated: after every call of create that has returned, whatever its
\* outcome (created, no source, I/O failure), the manifest is the one this
\* call wrote and lists no file outside the current source set.
C16_AlwaysOverwrites ==
    call["fg"].pc = "ret" =>
        /\ RTArchive.meta = RTManifest
        /\ DOMAIN RTArchive.meta.files \subseteq RTSources

\* C16 amended: after a call of create that ends created or no-source the
\* manifest is the one this call wrote and lists no file outside the current
\* source set; after a call that ends in an I/O failure the manifest is the
\* earlier one, or unreadable when the failure hit the manifest write.
C16_OverwritesUnlessFailed ==
    /\ (RTCreated \/ RTNoSource) =>
          /\ RTArchive.meta = RTManifest
          /\ DOMAIN RTArchive.meta.files \subseteq RTSources
    /\ RTFailed => RTArchive.meta \in {RTBefore.meta, BadMeta}

\* C16 witness: the call returned True over an archive whose manifest listed
\* another file, and that entry is gone.
C16_Witness ==
    /\ RTCreated
    /\ DOMAIN RTBefore.meta.files # {} /\ DOMAIN RTBefore.meta.files # RTSources
    /\ DOMAIN RTArchive.meta.files = RTSources

\* C17: no two records of the catalog have the same name.
C17_UniqueNames ==
    catalog.state = "ok" =>
        \A i, j \in 1..Len(catalog.scripts) :
            catalog.scripts[i].name = catalog.scripts[j].name => i = j

\* The modify handler goes on to save_scripts without calling
\* backup_script_to_folder.
ModifySkipsBackup == fg.pc = "input" /\ fg'.pc = "save" /\ fg'.op = "modify"

\* C18: when modify changes the path of a record to a file that is not in use,
\* or the record has no backup, it does not skip the backup unless the manifest
\* is already one of the record's path: on return the manifest's original_path
\* is the record's path.
C18_ModifyTriggersBackup ==
    [][LET old == fg.scripts[fg'.idx]
           new == fg'.scripts[fg'.idx]
       IN  (/\ ModifySkipsBackup
            /\ ~is_running(new.path) /\ files[new.path].exists
            /\ (new.path # old.path \/ DOMAIN backups[new.name].meta.files = {})) =>
               /\ backups[new.name].meta.state = "ok"
               /\ backups[new.name].meta.original_path = new.path]_vars


\* C19: during a sweep the worker attempts a backup only for a record of its
\* snapshot that is flagged pending_backup and whose path is_running reports
\* false at that moment; a step of the worker changes no archive but that of
\* the record being attempted; inside the sweep the snapshot changes only by
\* the pending flag of the record whose attempt succeeded; and the worker
\* writes the catalog only in a sweep in which a flag was cleared, and then
\* writes its snapshot.
WorkerStep == wk' # wk \/ call'["wk"] # call["wk"]
InSweep == wk.pc \in {"for", "call"} /\ wk'.pc \in {"for", "call", "dump"}
C19_SweepFrame ==
    [][WorkerStep =>
        /\ (wk.pc = "for" /\ wk'.pc = "call") =>
              /\ wk.scripts[wk.i].pending_backup
              /\ ~is_running(wk.scripts[wk.i].path)
              /\ call'["wk"].script = wk.scripts[wk.i]
        /\ \A n \in Names : backups'[n] # backups[n] =>
              /\ wk.pc = "call"
              /\ wk.scripts[wk.i].pending_backup
              /\ n = wk.scripts[wk.i].name
        /\ InSweep =>
              /\ DOMAIN wk'.scripts = DOMAIN wk.scripts
              /\ \A j \in DOMAIN wk.scripts :
                    \/ wk'.scripts[j] = wk.scripts[j]
                    \/ /\ j = wk.i /\ wk.pc = "call"
                       /\ call["wk"].pc = "ret" /\ call["wk"].ok
                       /\ wk'.scripts[j] = [wk.scripts[j] EXCEPT !.pending_backup = FALSE]
        /\ (wk'.changed /\ ~wk.changed) =>
              wk.scripts[wk.i].pending_backup /\ ~wk'.scripts[wk.i].pending_backup
        /\ catalog' # catalog =>
              /\ wk.changed
              /\ wk.pc = "dump" => catalog' = CatFile(wk.scripts)]_vars

\* A sweep over two records is about to save: one flag was cleared, the other
\* record was left pending.
C19_Witness ==
    /\ wk.pc = "dump" /\ wk.changed /\ Len(wk.scripts) = 2
    /\ \E j, k \in DOMAIN wk.scripts :
          wk.scripts[j].pending_backup /\ ~wk.scripts[k].pending_backup


\* C20: a create call that ends in the no-source or the I/O-failure outcome
\* destroys no earlier good backup: if restore of the archive as it was before
\* the call writes at least one file, restore of the archive after the call
\* writes at least one file.
Restorable(dir) == reproduce_script_to_default(dir, NoOut).written >= 1
C20_FailedKeepsBackup ==
    (RTNoSource \/ RTFailed) => (Restorable(RTBefore) => Restorable(RTArchive))

====
